---- MODULE Spec2Model ----
(***************************************************************************)
(* State-machine model of tap_facebook/__init__.py: the sync driver        *)
(* (do_sync), the report streams (AdsInsights: job_params, run_job under   *)
(* retry_pattern, row extraction, advance_bookmark) and the incremental    *)
(* streams.                                                                *)
(*                                                                         *)
(* Dates are whole days, counted from 2023-12-25 = day 0, so that          *)
(* 2023-12-30 = 5, 2024-01-01 = 7, 2024-01-03 = 9, 2024-01-04 = 10 and     *)
(* 2024-01-10 = 16.  On whole days pendulum.parse, to_date_string and      *)
(* str(date) map a day to the same day, and the comparison of ISO date     *)
(* strings is the comparison of days.                                      *)
(***************************************************************************)
EXTENDS Integers, Sequences, FiniteSets, TLC

VARIABLES
    cfg,        \* CONFIG: start_date, end_date (None = absent), insights_buffer_days
    now,        \* the day pendulum.now() falls on
    doc,        \* the state document object every stream holds (stream.state)
    doc0,       \* the state document as the run was started with it
    selected,   \* streams_to_sync, in STREAMS order
    si,         \* index in selected of the stream do_sync is iterating (0 = none yet)
    pc,         \* position of do_sync / of the stream's generator
    gen,        \* locals of the job_params generator
    retry,      \* the retry wrapper's call of run_job for the current chunk
    job,        \* locals of AdsInsights.__iter__ for the current job
    out,        \* messages written to the output by this run, in order
    fetched,    \* <<stream, day>> requested by a job that completed (kept across runs)
    log,        \* SYNC_SUCCESS / SYNC_FAILURE summaries logged by this run
    run,        \* 1 = first run, 2 = run restarted from an emitted state
    stop,       \* what the first run was doing when it was stopped
    err,        \* the exception that left do_sync and ended the run, or None
    call        \* a single call of one function: its arguments and its results

vars ==
    <<cfg, now, doc, doc0, selected, si, pc, gen, retry, job, out, fetched, log, run,
      stop, err, call>>

\* Python's None where a day or a number is expected
None == -1000

-----------------------------------------------------------------------------
(* Bounds of the model *)

\* latest day "now" falls on
MaxDay == 16
\* most rows a job result holds
MaxRows == 1
\* most objects a list request returns
MaxObjects == 1
\* latest day of a bookmark, a candidate or a start date given to advance_bookmark
MaxDate == 3
\* longest window (end - buffered_start, in days) and largest chunk size given
\* to job_params
MaxWindow == 21

MaxBatch == 8
\* most rows of a job result given to the row loop on its own
MaxResult == 2
\* longest list of creative ids given to fetch_creative_in_batch
MaxIds == 120

-----------------------------------------------------------------------------
(* Program constants *)

INSIGHTS_MAX_WAIT_TO_START_SECONDS == 120

INSIGHTS_MAX_WAIT_TO_FINISH_SECONDS == 1800

INSIGHTS_MAX_ASYNC_SLEEP_SECONDS == 300

INSIGHTS_BATCH_SIZE == 7

RESULT_RETURN_LIMIT == 100

\* local of fetch_creative_in_batch
batch_request_size == 50

\* max_tries and factor of the retry_pattern decorator of run_job
max_tries == 5

factor == 5

\* the modelled part of STREAMS, in its order
STREAMS == <<"campaigns", "ads_insights", "ads_insights_placement">>

StreamNames == {STREAMS[i] : i \in 1..Len(STREAMS)}

\* initialize_stream: the names built as AdsInsights; the others are IncrementalStream
INSIGHTS_BREAKDOWNS_OPTIONS == {"ads_insights", "ads_insights_placement"}

IsIncrementalStream(name) == name \notin INSIGHTS_BREAKDOWNS_OPTIONS

Days == 0..MaxDay

-----------------------------------------------------------------------------
(* The state document.  truthy: the dict is non-empty (Python truth value);  *)
(* bm[s]: the bookmark stored for stream s under its bookmark key, or None.  *)

EmptyDoc == [truthy |-> FALSE, bm |-> [s \in StreamNames |-> None]]

\* state = stream.state or {}
StateOrEmpty(d) == IF d.truthy THEN d ELSE EmptyDoc

\* singer.get_bookmark(state, tap_stream_id, bookmark_key)
get_bookmark(state, name) == state.bm[name]

\* singer.write_bookmark(state, tap_stream_id, bookmark_key, val): sets the key in state
write_bookmark(state, name, val) ==
    [truthy |-> TRUE, bm |-> [state.bm EXCEPT ![name] = val]]

get_start_swapped(name, d, start_date) ==
    LET current_bookmark == get_bookmark(StateOrEmpty(d), name)
    IN  IF current_bookmark = None
        THEN IF IsIncrementalStream(name) THEN start_date ELSE None
        ELSE current_bookmark

get_start(name, d, start_date) ==
    LET current_bookmark == get_bookmark(StateOrEmpty(d), name)
    IN  IF current_bookmark = None
        THEN IF IsIncrementalStream(name) THEN None ELSE start_date
        ELSE current_bookmark

\* advance_bookmark when it writes whatever the current bookmark is
advance_bookmark_always(name, d, date, start_date) ==
    LET state == StateOrEmpty(d)
    IN  IF date = None
        THEN [ret |-> state, shared |-> d]
        ELSE LET w == write_bookmark(state, name, date)
             IN  [ret |-> w, shared |-> IF d.truthy THEN w ELSE d]

\* advance_bookmark(stream, bookmark_key, date) on a stream whose state is d.
\* ret: the state it returns; shared: the document stream.state refers to
\* afterwards (write_bookmark updates the dict it is given: that is the
\* stream's own dict unless "stream.state or {}" made a fresh one).
advance_bookmark(name, d, date, start_date) ==
    LET state == StateOrEmpty(d)
        current_bookmark == get_start(name, d, start_date)
    IN  IF date = None
        THEN [ret |-> state, shared |-> d]
        ELSE IF current_bookmark = None \/ date > current_bookmark
        THEN LET w == write_bookmark(state, name, date)
             IN  [ret |-> w, shared |-> IF d.truthy THEN w ELSE d]
        ELSE [ret |-> state, shared |-> d]

-----------------------------------------------------------------------------
(* Failures of a remote call, by the attributes the classifier reads *)

NoAttrs == [message |-> "", transient |-> FALSE, subcode |-> None, status |-> None]

Exc(type) == [type |-> type] @@ NoAttrs

\* no exception: the call returned
NoExc == Exc("None")

FacebookRequestErrors ==
    { [type |-> "FacebookRequestError", message |-> "",
       transient |-> t, subcode |-> sc, status |-> st] :
         t \in BOOLEAN, sc \in {None, 33, 98, 99, 100}, st \in {400, 403, 404, 500, 503} }

TypeErrors ==
    { [Exc("TypeError") EXCEPT !.message = m] :
         m \in {"string indices must be integers", "unsupported operand"} }

\* FacebookError: another error of the client library; KeyError, ValueError and
\* TapFacebookException: exception types the decorator does not list
Exceptions ==
    { Exc(t) : t \in {"FacebookBadObjectError", "InsightsJobTimeout", "FacebookError",
                      "KeyError", "ValueError", "TapFacebookException"} }
        \cup FacebookRequestErrors \cup TypeErrors

\* the exception tuple given to retry_pattern at run_job
RetryExceptionTypes ==
    {"FacebookRequestError", "InsightsJobTimeout", "FacebookBadObjectError", "TypeError"}

\* subclasses of FacebookError, which do_sync catches
FacebookErrorTypes == {"FacebookRequestError", "FacebookBadObjectError", "FacebookError"}

should_retry_no_status(exception) ==
    IF exception.type = "FacebookBadObjectError" THEN TRUE
    ELSE IF exception.type = "FacebookRequestError"
    THEN exception.transient \/ exception.subcode = 99
    ELSE IF exception.type = "InsightsJobTimeout" THEN TRUE
    ELSE IF exception.type = "TypeError"
            /\ exception.message = "string indices must be integers" THEN TRUE
    ELSE FALSE

should_retry_api_error(exception) ==
    IF exception.type = "FacebookBadObjectError" THEN TRUE
    ELSE IF exception.type = "FacebookRequestError"
    THEN exception.transient \/ exception.subcode = 99 \/ exception.status = 500
    ELSE IF exception.type = "InsightsJobTimeout" THEN TRUE
    ELSE IF exception.type = "TypeError"
            /\ exception.message = "string indices must be integers" THEN TRUE
    ELSE FALSE

\* giveup=lambda exc: not should_retry_api_error(exc)
giveup(exc) == ~ should_retry_api_error(exc)

-----------------------------------------------------------------------------
(* backoff.on_exception(backoff.expo, exception, jitter=None, giveup=...,    *)
(* max_tries=5, factor=5) around one call of the wrapped operation.          *)
(* tries: the wrapper's counter; calls: invocations of the wrapped operation; *)
(* slept: the waits slept; status: "calling" while another attempt is due,   *)
(* "returned", "raised"; exc: the exception of the last attempt; raised: the *)
(* exception the wrapper let out.                                            *)

NewCall ==
    [tries |-> 0, calls |-> 0, slept |-> << >>, status |-> "calling",
     exc |-> NoExc, raised |-> NoExc]

RECURSIVE Pow2(_)
Pow2(n) == IF n = 0 THEN 1 ELSE 2 * Pow2(n - 1)

\* backoff.expo(base=2, factor=factor): the wait before retry number n (n >= 1)
expo(n) == factor * Pow2(n - 1)

\* whether the wrapper re-raises the exception of attempt number t
reraise_unbounded(exc, t) ==
    \/ exc.type \notin RetryExceptionTypes
    \/ giveup(exc)

reraise_after_sleep(exc, t) ==
    \/ exc.type \notin RetryExceptionTypes
    \/ t = max_tries

reraise(exc, t) ==
    \/ exc.type \notin RetryExceptionTypes
    \/ giveup(exc)
    \/ t = max_tries

\* one attempt: outcome is NoExc or the exception the wrapped operation raised
retry_attempt(r, outcome) ==
    LET t == r.tries + 1
        c == r.calls + 1
    IN  IF outcome = NoExc
        THEN [r EXCEPT !.tries = t, !.calls = c, !.status = "returned", !.exc = NoExc]
        ELSE IF reraise(outcome, t)
        THEN [r EXCEPT !.tries = t, !.calls = c, !.status = "raised", !.exc = outcome,
                       !.raised = outcome]
        ELSE [r EXCEPT !.tries = t, !.calls = c, !.exc = outcome,
                       !.slept = Append(@, expo(t))]

-----------------------------------------------------------------------------
(* AdsInsights.job_params *)

\* end_date = pendulum.now(), or CONFIG['end_date'] when configured
end_date_of(c, n) == IF c.end_date # None THEN c.end_date ELSE n

buffered_start_date_of(name, d, c) ==
    get_start(name, d, c.start_date) - c.insights_buffer_days

loops_full(bs, e, B) == B

loops_short(bs, e, B) == IF e - bs < B THEN e - bs ELSE B

\* number of day ranges of the chunk that ends on e: loop_days = (e - bs).days
loops(bs, e, B) == IF e - bs < B THEN e - bs + 1 ELSE B

time_ranges_oldest_first(e, n) ==
    [i \in 1..n |-> [since |-> e - (n - i), until |-> e - (n - i)]]

\* the chunk's time_ranges, newest day first
time_ranges(e, n) == [i \in 1..n |-> [since |-> e - (i - 1), until |-> e - (i - 1)]]

\* the generator breaks after the chunk that ends on e
last_chunk(bs, e, B) == e - bs < B

\* the end of the first chunk, None when the loop is not entered
job_params_first(bs, e) == IF bs <= e THEN e ELSE None

\* resumed after the chunk that ends on e: the end of the next chunk, None when
\* the generator ends
job_params_next(bs, e, B) ==
    IF last_chunk(bs, e, B) THEN None
    ELSE IF bs <= e - B THEN e - B ELSE None

NoGen == [end_date |-> None, buffered_start_date |-> None, time_ranges |-> << >>, n |-> 0]

\* the generator at its yield of chunk number n, ending on e
GenAt(bs, e, n, B) ==
    [end_date |-> e, buffered_start_date |-> bs,
     time_ranges |-> time_ranges(e, loops(bs, e, B)), n |-> n]

NoJob == [min_date_start_for_job |-> None, count |-> 0, useful_count |-> 0]

-----------------------------------------------------------------------------
(* Messages and log lines *)

RecordMsg(name, n) == [kind |-> "record", stream |-> name, chunk |-> n]

\* a state message: the document written, the chunk it follows and the date
\* given to advance_bookmark
StateMsg(name, n, date, state) ==
    [kind |-> "state", stream |-> name, chunk |-> n, candidate |-> date, state |-> state]

write_first(o, message) == <<message>> \o o

\* singer.write_record / singer.write_state: the message goes to the end of the output
write(o, message) == Append(o, message)

Summary_success(name, ok) == [stream |-> name, result |-> "SYNC_SUCCESS"]

\* the line the finally clause logs: is_sync_success decides its tag
Summary(name, ok) ==
    [stream |-> name, result |-> IF ok THEN "SYNC_SUCCESS" ELSE "SYNC_FAILURE"]

\* the exception that leaves do_sync: FacebookErrors are re-raised by raise_from
leaves_do_sync(exc) ==
    IF exc.type \in FacebookErrorTypes
    THEN [type |-> "MySingerSyncError", cause |-> exc.type]
    ELSE [type |-> exc.type, cause |-> "None"]

NoErr == [type |-> "None", cause |-> "None"]

-----------------------------------------------------------------------------
(* Initial states of a run of do_sync *)

Configs ==
    { [start_date |-> s, end_date |-> e, insights_buffer_days |-> b] :
        s \in {7, 12}, e \in {None, MaxDay - 3}, b \in {0, 2} }

\* state documents a run can be started with: absent or empty (not truthy), or
\* holding any bookmarks
Docs ==
    { EmptyDoc, [EmptyDoc EXCEPT !.truthy = TRUE] }
      \cup { write_bookmark(EmptyDoc, n, b) : n \in INSIGHTS_BREAKDOWNS_OPTIONS, b \in {9, 14} }

\* get_streams_to_sync: the selected catalog entries, in STREAMS order
Selections ==
    { <<"ads_insights">>, <<"campaigns", "ads_insights">>,
      <<"ads_insights", "ads_insights_placement">> }

NoCall == [op |-> "none"]

NoStop == [stream |-> "None", buffered_start_date |-> None, end_date |-> None]

Init ==
    /\ cfg \in Configs
    /\ now = MaxDay
    /\ doc \in Docs
    /\ doc0 = doc
    /\ selected \in Selections
    /\ si = 0
    /\ pc = "sync"
    /\ gen = NoGen
    /\ retry = NewCall
    /\ job = NoJob
    /\ out = << >>
    /\ fetched = {}
    /\ log = << >>
    /\ run = 1
    /\ stop = NoStop
    /\ err = NoErr
    /\ call = NoCall

-----------------------------------------------------------------------------
(* do_sync and the streams' iterators *)

name == selected[si]

\* the generator is exhausted: the stream's loop in do_sync ends, SYNC_SUCCESS is logged
StreamSuccess(n) ==
    /\ pc' = "sync"
    /\ gen' = NoGen
    /\ log' = Append(log, Summary(n, TRUE))

StreamFailure_continue(exc) ==
    /\ pc' = "sync"
    /\ gen' = gen
    /\ log' = Append(log, Summary(name, FALSE))
    /\ err' = err

\* an exception leaves the stream's iterator: SYNC_FAILURE is logged in the
\* finally clause and the exception leaves do_sync
StreamFailure(exc) ==
    /\ pc' = "failed"
    /\ log' = Append(log, Summary(name, FALSE))
    /\ err' = leaves_do_sync(exc)

\* do_sync takes the next stream; a report stream starts job_params and comes
\* to its first yield, or to its end when the window is empty
SyncStream ==
    /\ pc = "sync"
    /\ si < Len(selected)
    /\ si' = si + 1
    /\ IF IsIncrementalStream(selected[si + 1])
       THEN /\ pc' = "list"
            /\ UNCHANGED <<gen, log>>
       ELSE LET bs == buffered_start_date_of(selected[si + 1], doc, cfg)
                e == job_params_first(bs, end_date_of(cfg, now))
            IN  IF e # None
                THEN /\ pc' = "run_job"
                     /\ gen' = GenAt(bs, e, 1, INSIGHTS_BATCH_SIZE)
                     /\ UNCHANGED log
                ELSE StreamSuccess(selected[si + 1])
    /\ retry' = NewCall
    /\ job' = NoJob
    /\ UNCHANGED <<call, cfg, now, doc, doc0, selected, out, fetched, run, stop, err>>

\* the days a job with these time ranges asks for
requested(n, ranges) ==
    { <<n, d>> : d \in UNION { ranges[i].since .. ranges[i].until : i \in 1..Len(ranges) } }

\* the failures run_job meets in a run: a job timeout, a server error, a bad request
RunJobFailures ==
    { Exc("InsightsJobTimeout"),
      [Exc("FacebookRequestError") EXCEPT !.transient = FALSE, !.status = 500],
      [Exc("FacebookRequestError") EXCEPT !.transient = FALSE, !.status = 400] }

\* one attempt of run_job under the retry wrapper: the job completes, or the
\* attempt fails and the wrapper retries or re-raises
RunJob ==
    /\ pc = "run_job"
    /\ \E outcome \in {NoExc} \cup RunJobFailures :
         /\ retry' = retry_attempt(retry, outcome)
         /\ fetched' = IF outcome = NoExc
                       THEN fetched \cup requested(name, gen.time_ranges)
                       ELSE fetched
         /\ IF retry'.status = "returned"
            THEN /\ pc' = "rows"
                 /\ UNCHANGED <<log, err>>
            ELSE IF retry'.status = "raised"
            THEN StreamFailure(outcome)
            ELSE UNCHANGED <<pc, log, err>>
    /\ job' = NoJob
    /\ UNCHANGED <<call, cfg, now, doc, doc0, selected, si, gen, out, run, stop>>

\* date_stop of a result row: the newest or the oldest day of the chunk
RowDates == { gen.time_ranges[1].until, gen.time_ranges[Len(gen.time_ranges)].until }

\* a value of rec['impressions'] or rec['spend'], in tenths: text when it is
\* the string of the provider's JSON ('0', '1', '0.5'), a number otherwise
Amount(text, tenths) == [text |-> text, tenths |-> tenths]

\* int(v) raises ValueError on a string that is not an integer literal
int_raises(v) == v.text /\ v.tenths % 10 # 0

\* int(v): the integer of the literal, a number truncated towards zero
int(v) == v.tenths \div 10

Impressions == { Amount(TRUE, 0), Amount(TRUE, 10) }

\* spend '0', '0.5' and '1'
Spends == { Amount(TRUE, 0), Amount(TRUE, 5), Amount(TRUE, 10) }

Rows == [date_stop : RowDates, impressions : Impressions, spend : Spends]

\* the test of the row raises: "and" evaluates int(rec['spend']) only when
\* int(rec['impressions']) == 0
row_raises(rec) ==
    \/ int_raises(rec.impressions)
    \/ int(rec.impressions) = 0 /\ int_raises(rec.spend)

\* the row is skipped as useless
skipped(rec) == int(rec.impressions) = 0 /\ int(rec.spend) = 0

min_date(cur, rec) ==
    IF cur = None \/ rec.date_stop < cur THEN rec.date_stop ELSE cur

\* one row of job.get_result(): counted, its date_stop tracked, and yielded as
\* a record unless skipped; do_sync writes the record.  A ValueError of the
\* test leaves the iterator.
ResultRow ==
    /\ pc = "rows"
    /\ job.count < MaxRows
    /\ \E rec \in Rows :
         IF row_raises(rec)
         THEN /\ job' = [job EXCEPT
                          !.min_date_start_for_job = min_date(job.min_date_start_for_job, rec),
                          !.count = @ + 1]
              /\ StreamFailure(Exc("ValueError"))
              /\ UNCHANGED out
         ELSE /\ job' = [min_date_start_for_job |-> min_date(job.min_date_start_for_job, rec),
                         count |-> job.count + 1,
                         useful_count |-> IF skipped(rec) THEN job.useful_count
                                          ELSE job.useful_count + 1]
              /\ out' = IF skipped(rec) THEN out ELSE write(out, RecordMsg(name, gen.n))
              /\ UNCHANGED <<pc, log, err>>
    /\ UNCHANGED <<call, cfg, now, doc, doc0, selected, si, gen, retry, fetched, run, stop>>

\* the date given to advance_bookmark: without rows, the until of the last time range
candidate_date(j, ranges) ==
    IF j.min_date_start_for_job = None
    THEN ranges[Len(ranges)].until
    ELSE j.min_date_start_for_job

\* the rows are exhausted: the bookmark is advanced and the state yielded;
\* do_sync writes the state message
ResultEnd ==
    /\ pc = "rows"
    /\ LET date == candidate_date(job, gen.time_ranges)
           adv == advance_bookmark(name, doc, date, cfg.start_date)
       IN  /\ doc' = adv.shared
           /\ out' = write(out, StateMsg(name, gen.n, date, adv.ret))
    /\ pc' = "job_params"
    /\ UNCHANGED <<call, cfg, now, doc0, selected, si, gen, retry, job, fetched, log, run, stop, err>>

\* do_sync asks for the next message: job_params resumes after its yield
JobParamsResume ==
    /\ pc = "job_params"
    /\ LET e == job_params_next(gen.buffered_start_date, gen.end_date, INSIGHTS_BATCH_SIZE)
       IN  IF e # None
           THEN /\ pc' = "run_job"
                /\ gen' = GenAt(gen.buffered_start_date, e, gen.n + 1, INSIGHTS_BATCH_SIZE)
                /\ UNCHANGED log
           ELSE StreamSuccess(name)
    /\ retry' = NewCall
    /\ job' = NoJob
    /\ UNCHANGED <<call, cfg, now, doc, doc0, selected, si, out, fetched, run, stop, err>>

ListRecord_bookmarking ==
    /\ pc = "list"
    /\ job.count < MaxObjects
    /\ job' = [job EXCEPT !.count = @ + 1]
    /\ LET adv == advance_bookmark(name, doc, now, cfg.start_date)
       IN  /\ doc' = adv.shared
           /\ out' = write(write(out, RecordMsg(name, 0)), StateMsg(name, 0, now, adv.ret))
    /\ UNCHANGED <<call, cfg, now, doc0, selected, si, pc, gen, retry, fetched, log, run, stop, err>>

\* an incremental stream yields one listed object; do_sync writes the record
ListRecord ==
    /\ pc = "list"
    /\ job.count < MaxObjects
    /\ job' = [job EXCEPT !.count = @ + 1]
    /\ out' = write(out, RecordMsg(name, 0))
    /\ UNCHANGED <<call, cfg, now, doc, doc0, selected, si, pc, gen, retry, fetched, log, run, stop, err>>

\* the listing ends
ListEnd ==
    /\ pc = "list"
    /\ StreamSuccess(name)
    /\ UNCHANGED <<call, cfg, now, doc, doc0, selected, si, retry, job, out, fetched, run, stop, err>>

\* the list request fails
ListFail ==
    /\ pc = "list"
    /\ StreamFailure([Exc("FacebookRequestError") EXCEPT !.transient = FALSE, !.status = 400])
    /\ UNCHANGED <<call, cfg, now, doc, doc0, selected, si, gen, retry, job, out, fetched, run, stop>>

\* every selected stream was synced: do_sync returns
Finish ==
    /\ pc = "sync"
    /\ si = Len(selected)
    /\ pc' = "done"
    /\ UNCHANGED <<call, cfg, now, doc, doc0, selected, si, gen, retry, job, out, fetched, log, run, stop, err>>

\* the process is stopped right after a state message was written, and a new
\* run is started with that state document and the same configuration
StopAndRestart ==
    /\ run = 1
    /\ pc = "job_params"
    /\ run' = 2
    /\ doc' = out[Len(out)].state
    /\ doc0' = doc'
    /\ stop' = [stream |-> name, buffered_start_date |-> gen.buffered_start_date,
                end_date |-> end_date_of(cfg, now)]
    /\ si' = 0
    /\ pc' = "sync"
    /\ gen' = NoGen
    /\ retry' = NewCall
    /\ job' = NoJob
    /\ out' = << >>
    /\ log' = << >>
    /\ UNCHANGED <<call, cfg, now, selected, fetched, err>>

Next ==
    \/ SyncStream
    \/ RunJob
    \/ ResultRow
    \/ ResultEnd
    \/ JobParamsResume
    \/ ListRecord
    \/ ListEnd
    \/ ListFail
    \/ Finish
    \/ StopAndRestart

Spec == Init /\ [][Next]_vars

-----------------------------------------------------------------------------
(* Properties of a run *)

StateMsgs == { i \in 1..Len(out) : out[i].kind = "state" }

RecordMsgs == { i \in 1..Len(out) : out[i].kind = "record" }

\* C1: the bookmark of a report stream carried by the successive state messages
\* of one run never decreases and never disappears, whatever the initial state
\* document, an empty or absent one included.
C1_BookmarkNeverDecreases ==
    \A i, j \in StateMsgs :
        (i < j /\ out[i].stream = out[j].stream) =>
            LET s == out[i].stream
                before == out[i].state.bm[s]
                after == out[j].state.bm[s]
            IN  before # None => (after # None /\ after >= before)

\* C2: when a sync of a report stream over [buffered_start, end] is stopped
\* right after an emitted state message and a new sync is run from that state
\* with the same configuration, every day of the original window was requested
\* by a completed job of the first or of the second run.
C2_NoDayLeftUnfetched ==
    (run = 2 /\ pc = "done") =>
        \A d \in stop.buffered_start_date .. stop.end_date : <<stop.stream, d>> \in fetched

\* C3: every record of a chunk is written before the state message of that
\* chunk: no record follows the state message of its own chunk, and when the
\* state message is written all the useful rows of the job have been written.
C3_RecordsBeforeState ==
    /\ \A i \in StateMsgs : \A j \in RecordMsgs :
          (out[j].stream = out[i].stream /\ out[j].chunk = out[i].chunk) => j < i
    /\ pc = "job_params" =>
          /\ out[Len(out)] = StateMsg(name, gen.n, out[Len(out)].candidate, out[Len(out)].state)
          /\ Cardinality({ j \in RecordMsgs : out[j] = RecordMsg(name, gen.n) })
                = job.useful_count

\* a state message that follows a record of its chunk
C3_Witness ==
    \E i \in StateMsgs : \E j \in RecordMsgs :
        j < i /\ out[j].stream = out[i].stream /\ out[j].chunk = out[i].chunk

\* start_date 2024-01-01, buffer_days 2, now 2024-01-10, and no bookmark of the
\* stream in the state document the run started with
Scenario ==
    /\ cfg.start_date = 7
    /\ cfg.insights_buffer_days = 2
    /\ end_date_of(cfg, now) = 16
    /\ si > 0
    /\ ~ IsIncrementalStream(name)
    /\ doc0.bm[name] = None

DaysOf(ranges) == [i \in 1..Len(ranges) |-> ranges[i].until]

\* C10: in the scenario the first job covers 2024-01-10 down to 2024-01-04,
\* newest first; when its rows have minimum date_stop 2024-01-04 the emitted
\* state has bookmark 2024-01-04; the next chunk starts at 2024-01-03 and is the
\* last one, reaching 2023-12-30.
C10_EndToEnd ==
    Scenario =>
        /\ gen.n = 1 =>
              /\ DaysOf(gen.time_ranges) = <<16, 15, 14, 13, 12, 11, 10>>
              /\ \A i \in 1..Len(gen.time_ranges) :
                    gen.time_ranges[i].since = gen.time_ranges[i].until
        /\ \A i \in StateMsgs :
              (out[i].stream = name /\ out[i].chunk = 1 /\ out[i].candidate = 10)
                  => out[i].state.bm[name] = 10
        /\ gen.n = 2 => DaysOf(gen.time_ranges) = <<9, 8, 7, 6, 5>>
        /\ gen.n <= 2
        /\ (pc = "job_params" /\ gen.n = 2) =>
              last_chunk(gen.buffered_start_date, gen.end_date, INSIGHTS_BATCH_SIZE)

\* the scenario after its second chunk, the first one having advanced the
\* bookmark to 2024-01-04
C10_Witness ==
    /\ Scenario
    /\ pc = "job_params"
    /\ gen.n = 2
    /\ \E i \in StateMsgs :
          /\ out[i].stream = name /\ out[i].chunk = 1
          /\ out[i].candidate = 10 /\ out[i].state.bm[name] = 10

\* the messages written for stream s
MessagesOf(s) == { i \in 1..Len(out) : out[i].stream = s }

\* the summaries logged for stream s
SummariesOf(s) == { i \in 1..Len(log) : log[i].stream = s }

\* C16 as stated: when the sync of a selected stream has ended with a fatal
\* error, every stream selected after it is still synced.
C16_LaterStreamsSynced ==
    pc = "failed" =>
        \A k \in (si + 1)..Len(selected) : SummariesOf(selected[k]) # {}

\* C16 amended: a fatal error of a stream ends the run: its failure summary is
\* the last thing logged, the exception has left do_sync, the streams
\* selected before it were synced, and no stream selected after it is synced:
\* none of its records or state messages is written.
C16_FailureEndsRun ==
    \A i \in 1..Len(log) :
        log[i].result = "SYNC_FAILURE" =>
            /\ i = Len(log)
            /\ i = si
            /\ log[i].stream = name
            /\ pc = "failed"
            /\ err # NoErr
            /\ \A k \in 1..(si - 1) :
                  log[k].stream = selected[k] /\ log[k].result = "SYNC_SUCCESS"
            /\ \A k \in (si + 1)..Len(selected) :
                  MessagesOf(selected[k]) = {} /\ SummariesOf(selected[k]) = {}

\* a stream failed after a record of it was written, with another stream
\* selected after it
C16_Witness ==
    /\ pc = "failed"
    /\ si < Len(selected)
    /\ MessagesOf(name) # {}
    /\ log[Len(log)].result = "SYNC_FAILURE"

\* C17: for every stream whose sync was started exactly one summary is
\* logged, when its sync ends: SYNC_SUCCESS when its iteration ended without
\* error, SYNC_FAILURE otherwise; and the exception has left do_sync only with
\* the SYNC_FAILURE summary of the stream logged.
C17_OneSummary ==
    /\ \A k \in 1..Len(log) : log[k].stream = selected[k]
    /\ Len(log) = IF pc \in {"sync", "done", "failed"} THEN si ELSE si - 1
    /\ \A k \in 1..Len(log) :
          log[k].result = IF k = si /\ pc = "failed" THEN "SYNC_FAILURE" ELSE "SYNC_SUCCESS"
    /\ err # NoErr =>
          /\ pc = "failed"
          /\ log[Len(log)].stream = name
          /\ log[Len(log)].result = "SYNC_FAILURE"
    /\ pc = "failed" => err # NoErr

\* the second stream failed after the first one succeeded
C17_Witness ==
    /\ pc = "failed"
    /\ err.type = "MySingerSyncError"
    /\ Len(log) = 2
    /\ log[1].result = "SYNC_SUCCESS"
    /\ log[2].result = "SYNC_FAILURE"

\* the state document before state message i was written: that of the state
\* message before it, or the document the run started with
StateBefore(i) ==
    IF \E j \in StateMsgs : j < i
    THEN out[CHOOSE j \in StateMsgs : j < i /\ \A k \in StateMsgs : k < i => k <= j].state
    ELSE doc0

\* C22: every state message of a run carries, for every stream other than the
\* one advanced, the bookmark of the state message before it, or of the
\* initial state document when there is none: bookmarks advanced earlier in the
\* run by another stream are retained, whatever the initial document, an empty
\* one included.
C22_OtherBookmarksRetained ==
    \A i \in StateMsgs :
        \A s \in StreamNames \ {out[i].stream} :
            out[i].state.bm[s] = StateBefore(i).bm[s]

\* the state messages written for chunk n of stream s
StateMsgsOf(s, n) == { i \in StateMsgs : out[i].stream = s /\ out[i].chunk = n }

\* C23: after each chunk whose job completed exactly one state message is
\* produced; the candidate given to advance_bookmark is the minimum date_stop
\* over all the rows of the job, the dropped ones included, and without rows
\* the until date of the chunk, never null.
C23_StateAfterEachJob ==
    (pc \in {"job_params", "failed"} /\ retry.status = "returned") =>
        /\ Cardinality(StateMsgsOf(name, gen.n)) = 1
        /\ \A i \in StateMsgsOf(name, gen.n) :
              /\ out[i].candidate # None
              /\ out[i].candidate =
                    IF job.count = 0
                    THEN gen.time_ranges[Len(gen.time_ranges)].until
                    ELSE job.min_date_start_for_job

\* the records written for chunk n of stream s
RecordMsgsOf(s, n) == { i \in RecordMsgs : out[i].stream = s /\ out[i].chunk = n }

\* C27: every attempt of a chunk submits a new job, at most 5 per chunk; an
\* attempt that times out or fails writes nothing; the records and the state
\* message of a chunk come from the one job run_job returned, each useful row
\* of it once: a retried chunk has no duplicated rows.
C27_OnlyCompletedJobEmits ==
    [][ /\ retry'.calls <= 5
        /\ pc = "run_job" =>
              /\ out' = out
              /\ retry'.calls = retry.calls + 1
              /\ RecordMsgsOf(name, gen.n) = {} /\ StateMsgsOf(name, gen.n) = {}
        /\ (out' # out /\ run' = run /\ ~ IsIncrementalStream(name)) =>
              /\ pc = "rows"
              /\ retry.status = "returned"
              /\ retry' = retry
              /\ Len(out') = Len(out) + 1
              /\ Cardinality({ i \in 1..Len(out') : out'[i] = RecordMsg(name, gen.n) })
                    = job'.useful_count
              /\ Cardinality(StateMsgsOf(name, gen.n)) = 0 ]_vars

\* the third attempt of a chunk returned its job, and a record and the state
\* message of the chunk were written
C27_Witness ==
    /\ pc = "job_params"
    /\ retry.calls = 3
    /\ retry.status = "returned"
    /\ Len(retry.slept) = 2
    /\ Cardinality(RecordMsgsOf(name, gen.n)) = 1
    /\ Cardinality(StateMsgsOf(name, gen.n)) = 1

\* the bookmark of stream s the run started with, or else the start date,
\* minus the buffer days
BufferedStart(s) ==
    (IF doc0.bm[s] # None THEN doc0.bm[s] ELSE cfg.start_date) - cfg.insights_buffer_days

\* C28: no chunk of job_params holds a day before buffered_start or after the
\* end boundary; and when buffered_start is later than the end boundary no
\* chunk is yielded, no job is submitted and no state message is written.
C28_ChunksInsideWindow ==
    /\ gen # NoGen =>
          \A i \in 1..Len(gen.time_ranges) :
              /\ BufferedStart(name) <= gen.time_ranges[i].since
              /\ gen.time_ranges[i].until <= end_date_of(cfg, now)
    /\ \A k \in 1..si :
          (~ IsIncrementalStream(selected[k])
             /\ BufferedStart(selected[k]) > end_date_of(cfg, now)) =>
              /\ MessagesOf(selected[k]) = {}
              /\ k = si => (pc \in {"sync", "done"} /\ gen = NoGen /\ retry.calls = 0)
              /\ run = 1 => \A d \in Days : <<selected[k], d>> \notin fetched
              /\ \E i \in 1..Len(log) : log[i] = [stream |-> selected[k], result |-> "SYNC_SUCCESS"]

\* a report stream whose bookmark is later than the configured end date was
\* synced without a message
C28_Witness ==
    /\ si > 0
    /\ pc = "sync"
    /\ ~ IsIncrementalStream(name)
    /\ BufferedStart(name) > end_date_of(cfg, now)
    /\ MessagesOf(name) = {}
    /\ log # << >>

\* C29: syncing a non-report entity type writes no state message and changes
\* no bookmark: in every step of its sync the state document stays as it was
\* and the state messages of the output stay the same, and no state message
\* ever bears the name of a non-report entity type.
C29_ListingKeepsState ==
    [][ /\ (pc = "list" \/ pc' = "list") =>
              /\ doc' = doc
              /\ { i \in 1..Len(out') : out'[i].kind = "state" } = StateMsgs
        /\ \A i \in 1..Len(out') :
              out'[i].kind = "state" => ~ IsIncrementalStream(out'[i].stream) ]_vars

\* an entity type was listed with a record in the run that was started from a
\* state message: the document still carries the bookmark of that message and
\* no state message was written
C29_Witness ==
    /\ run = 2
    /\ pc = "sync"
    /\ si = 1
    /\ IsIncrementalStream(name)
    /\ RecordMsgsOf(name, 0) # {}
    /\ StateMsgs = {}
    /\ doc = doc0
    /\ \E n \in INSIGHTS_BREAKDOWNS_OPTIONS : get_bookmark(doc, n) # None
    /\ log = <<Summary(name, TRUE)>>

-----------------------------------------------------------------------------
(* Single calls of get_start, advance_bookmark, should_retry_api_error, the  *)
(* retry wrapper and job_params, on arguments drawn from bounded sets        *)

mainVars ==
    <<cfg, now, doc, doc0, selected, si, pc, gen, retry, job, out, fetched, log, run,
      stop, err>>

\* no run of do_sync is in progress
Idle ==
    /\ cfg = [start_date |-> 0, end_date |-> None, insights_buffer_days |-> 0]
    /\ now = 0
    /\ doc = EmptyDoc
    /\ doc0 = EmptyDoc
    /\ selected = << >>
    /\ si = 0
    /\ pc = "idle"
    /\ gen = NoGen
    /\ retry = NewCall
    /\ job = NoJob
    /\ out = << >>
    /\ fetched = {}
    /\ log = << >>
    /\ run = 1
    /\ stop = NoStop
    /\ err = NoErr

\* the state documents of a stream n: absent or empty, non-empty without a
\* bookmark of n, or with one
DocsOf(n) ==
    { EmptyDoc, [EmptyDoc EXCEPT !.truthy = TRUE] }
      \cup { write_bookmark(EmptyDoc, n, b) : b \in 0..MaxDate }

\* state0: the document the stream holds before the calls; state: the document
\* it holds now; got: the result of get_start; returned: the states returned by
\* the successive calls of advance_bookmark
InitAdvance ==
    /\ Idle
    /\ call \in { [op |-> "advance", name |-> n, state0 |-> d, state |-> d, date |-> c,
                   start_date |-> s, got |-> << >>, returned |-> << >>] :
                     n \in StreamNames, d \in UNION { DocsOf(m) : m \in StreamNames },
                     c \in {None} \cup 0..MaxDate, s \in 1..2 }

\* get_start(stream, bookmark_key) before any advance
GetStart ==
    /\ call.op = "advance"
    /\ call.got = << >>
    /\ call.returned = << >>
    /\ call' = [call EXCEPT !.got = <<get_start(call.name, call.state, call.start_date)>>]
    /\ UNCHANGED mainVars

\* advance_bookmark(stream, bookmark_key, date), a first and a second time
Advance ==
    /\ call.op = "advance"
    /\ Len(call.returned) < 2
    /\ LET adv == advance_bookmark(call.name, call.state, call.date, call.start_date)
       IN  call' = [call EXCEPT !.returned = Append(@, adv.ret), !.state = adv.shared]
    /\ UNCHANGED mainVars

SpecAdvance == InitAdvance /\ [][GetStart \/ Advance]_vars

InitClassify ==
    /\ Idle
    /\ call \in { [op |-> "classify", exception |-> e, verdict |-> "none"] :
                     e \in Exceptions }

\* should_retry_api_error(exception)
Classify ==
    /\ call.op = "classify"
    /\ call.verdict = "none"
    /\ call' = [call EXCEPT !.verdict = IF should_retry_api_error(call.exception)
                                       THEN "transient" ELSE "fatal"]
    /\ UNCHANGED mainVars

SpecClassify == InitClassify /\ [][Classify]_vars

InitRetry ==
    /\ Idle
    /\ call = [op |-> "retry"]

\* one attempt of an operation wrapped by retry_pattern, with any outcome
RetryAttempt ==
    /\ call.op = "retry"
    /\ retry.status = "calling"
    /\ \E outcome \in {NoExc} \cup Exceptions : retry' = retry_attempt(retry, outcome)
    /\ UNCHANGED <<cfg, now, doc, doc0, selected, si, pc, gen, job, out, fetched, log,
                   run, stop, err, call>>

SpecRetry == InitRetry /\ [][RetryAttempt]_vars

\* end_date: the end of the chunk last yielded; chunks: the time_ranges yielded
InitChunks ==
    /\ Idle
    /\ call \in { [op |-> "job_params", buffered_start_date |-> bs, end |-> bs + w,
                   B |-> B, end_date |-> None, chunks |-> << >>, done |-> FALSE] :
                     bs \in 1..2, w \in -1..MaxWindow, B \in 1..MaxBatch }

\* job_params runs to its next yield, or to its end
JobParamsStep ==
    /\ call.op = "job_params"
    /\ ~ call.done
    /\ LET bs == call.buffered_start_date
           e == IF call.end_date = None
                THEN job_params_first(bs, call.end)
                ELSE job_params_next(bs, call.end_date, call.B)
       IN  IF e = None
           THEN call' = [call EXCEPT !.done = TRUE]
           ELSE call' = [call EXCEPT !.end_date = e,
                                     !.chunks = Append(@, time_ranges(e, loops(bs, e, call.B)))]
    /\ UNCHANGED mainVars

SpecChunks == InitChunks /\ [][JobParamsStep]_vars

\* the rows a job result can hold: impressions '0', '1', '2'; spend as a string
\* or as a number, 0, 0.5 or 1
ResultRows ==
    [date_stop : {1}, impressions : Impressions \cup {Amount(TRUE, 20)},
     spend : { Amount(t, v) : t \in BOOLEAN, v \in {0, 5, 10} }]

\* rows: the rows taken from the result so far; emitted: the rows yielded
InitRows ==
    /\ Idle
    /\ call = [op |-> "rows", rows |-> << >>, emitted |-> << >>, count |-> 0,
               useful_count |-> 0, raised |-> FALSE]

\* the body of the loop over job.get_result() for one row
ExtractRow ==
    /\ call.op = "rows"
    /\ ~ call.raised
    /\ Len(call.rows) < MaxResult
    /\ \E rec \in ResultRows :
         call' = IF row_raises(rec)
                 THEN [call EXCEPT !.rows = Append(@, rec), !.count = @ + 1,
                                   !.raised = TRUE]
                 ELSE IF skipped(rec)
                 THEN [call EXCEPT !.rows = Append(@, rec), !.count = @ + 1]
                 ELSE [call EXCEPT !.rows = Append(@, rec), !.count = @ + 1,
                                   !.useful_count = @ + 1, !.emitted = Append(@, rec)]
    /\ UNCHANGED mainVars

SpecRows == InitRows /\ [][ExtractRow]_vars

JobTimeout(message) == [Exc("InsightsJobTimeout") EXCEPT !.message = message]

timeout_at_limit(duration, percent_complete) ==
    IF duration >= INSIGHTS_MAX_WAIT_TO_START_SECONDS /\ percent_complete = 0
    THEN JobTimeout("did not start")
    ELSE IF duration >= INSIGHTS_MAX_WAIT_TO_FINISH_SECONDS
    THEN JobTimeout("did not complete")
    ELSE NoExc

timeout_start_only(duration, percent_complete) ==
    IF duration > INSIGHTS_MAX_WAIT_TO_START_SECONDS /\ percent_complete = 0
    THEN JobTimeout("did not start")
    ELSE NoExc

\* the exception run_job raises at a poll that found the job not completed,
\* NoExc when it goes on to sleep
timeout(duration, percent_complete) ==
    IF duration > INSIGHTS_MAX_WAIT_TO_START_SECONDS /\ percent_complete = 0
    THEN JobTimeout("did not start")
    ELSE IF duration > INSIGHTS_MAX_WAIT_TO_FINISH_SECONDS
    THEN JobTimeout("did not complete")
    ELSE NoExc

\* values of job['async_status']
JobStatuses == {"Job Running", "Job Failed", "Job Completed"}

poll_step_timeout_first(status, duration, percent_complete) ==
    IF timeout(duration, percent_complete) # NoExc
    THEN [returns |-> FALSE, raises |-> timeout(duration, percent_complete)]
    ELSE [returns |-> status = "Job Completed", raises |-> NoExc]

poll_step_failed_raises(status, duration, percent_complete) ==
    IF status = "Job Completed"
    THEN [returns |-> TRUE, raises |-> NoExc]
    ELSE IF status = "Job Failed"
    THEN [returns |-> FALSE, raises |-> JobTimeout("failed")]
    ELSE [returns |-> FALSE, raises |-> timeout(duration, percent_complete)]

\* what a poll does with what it read: return the job, raise, or neither
\* (sleep and poll again)
poll_step(status, duration, percent_complete) ==
    IF status = "Job Completed"
    THEN [returns |-> TRUE, raises |-> NoExc]
    ELSE [returns |-> FALSE, raises |-> timeout(duration, percent_complete)]

\* sleep_time after a sleep
next_sleep_time(sleep_time) ==
    IF sleep_time < INSIGHTS_MAX_ASYNC_SLEEP_SECONDS THEN 2 * sleep_time ELSE sleep_time

\* seconds that pass in a poll beside the sleep (the requests, the logging)
Latencies == {0, 50, 51, 160}

\* clock: time.time() - time_start; duration, status, percent_complete: what
\* the last poll read; slept: the sleeps made; raised, returned: how the call ended
InitPoll ==
    /\ Idle
    /\ call = [op |-> "run_job", clock |-> 0, sleep_time |-> 10, polls |-> 0,
               duration |-> 0, status |-> "", percent_complete |-> 0,
               slept |-> << >>, raised |-> NoExc, returned |-> FALSE]

\* one iteration of the loop "while status != 'Job Completed'"
Poll ==
    /\ call.op = "run_job"
    /\ call.raised = NoExc
    /\ ~ call.returned
    /\ \E status \in JobStatuses, percent_complete \in {0, 50}, latency \in Latencies :
         LET duration == call.clock
             step == poll_step(status, duration, percent_complete)
             polled == [call EXCEPT !.polls = @ + 1, !.duration = duration,
                                    !.status = status,
                                    !.percent_complete = percent_complete]
         IN  call' = IF step.returns
                     THEN [polled EXCEPT !.returned = TRUE]
                     ELSE IF step.raises # NoExc
                     THEN [polled EXCEPT !.raised = step.raises]
                     ELSE [polled EXCEPT !.slept = Append(@, call.sleep_time),
                                         !.clock = @ + call.sleep_time + latency,
                                         !.sleep_time = next_sleep_time(call.sleep_time)]
    /\ UNCHANGED mainVars

SpecPoll == InitPoll /\ [][Poll]_vars

\* the attempt of run_job has ended: the retry wrapper returns the job, lets
\* the timeout out, or sleeps and calls run_job again, which submits a new job
AttemptEnds ==
    /\ call.op = "run_job"
    /\ call.returned \/ call.raised # NoExc
    /\ retry.status = "calling"
    /\ retry' = retry_attempt(retry, IF call.returned THEN NoExc ELSE call.raised)
    /\ call' = IF retry'.status = "calling"
               THEN [op |-> "run_job", clock |-> 0, sleep_time |-> 10, polls |-> 0,
                     duration |-> 0, status |-> "", percent_complete |-> 0,
                     slept |-> << >>, raised |-> NoExc, returned |-> FALSE]
               ELSE call
    /\ UNCHANGED <<cfg, now, doc, doc0, selected, si, pc, gen, job, out, fetched, log,
                   run, stop, err>>

\* run_job under its retry_pattern decorator.  Each status fetch returns and
\* each sleep ends: the poll and the wrapper take their next step.
SpecRunJob ==
    /\ InitPoll
    /\ [][Poll \/ AttemptEnds]_vars
    /\ WF_vars(Poll)
    /\ WF_vars(AttemptEnds)

new_batch_due_late(batch_count) == batch_count % (batch_request_size + 1) = 0

\* "if batch_count % batch_request_size == 0": execute and create a new batch
new_batch_due(batch_count) == batch_count % batch_request_size = 0

\* api_batch.execute(): the client sends the batch to the batch endpoint; on a
\* batch without calls it returns at once and sends nothing
execute(requests, api_batch) ==
    IF api_batch = << >> THEN requests ELSE Append(requests, api_batch)

\* response.error() of a failed lookup: a server error, a rate-limit subcode,
\* a bad request
LookupErrors ==
    { [Exc("FacebookRequestError") EXCEPT !.status = 500],
      [Exc("FacebookRequestError") EXCEPT !.status = 400, !.subcode = 99],
      [Exc("FacebookRequestError") EXCEPT !.status = 400] }

\* raise_from(MySingerSyncError, fb_error, info)
raise_from(fb_error) == [type |-> "MySingerSyncError", cause |-> fb_error.type]

\* the items of an executed batch whose lookup can fail: 0 when none fails
Failing(api_batch) == {0} \cup { api_batch[k] : k \in 1..Len(api_batch) }

\* ad_object_id_list: n distinct ids, here 1..n in list order.  api_batch: the
\* ids enqueued in the current batch; info: info['processing_id'] of the dict
\* shared by every failure callback; executes: calls of execute(); requests:
\* the batches sent to the endpoint; failed: the id whose lookup failed (0 =
\* none), error: its response.error(), raised: the exception the failure
\* callback raised and raised_info: the processing_id in it; retries: the
\* times a batch was executed again after a failed lookup
InitBatch ==
    /\ Idle
    /\ call \in { [op |-> "batch", total_count |-> n, api_batch |-> << >>,
                    batch_count |-> 0, processed_count |-> 0,
                    processing_id_list |-> << >>, info |-> << >>, executes |-> 0,
                    requests |-> << >>, failed |-> 0, raised_info |-> << >>,
                    error |-> NoExc, raised |-> NoErr, retries |-> 0,
                    done |-> FALSE] : n \in 1..MaxIds }

BatchFailure_retried(c, f, e) ==
    IF should_retry_api_error(e) /\ c.retries + 1 < max_tries
    THEN [c EXCEPT !.retries = @ + 1]
    ELSE [c EXCEPT !.executes = @ + 1, !.requests = execute(@, c.api_batch),
                   !.failed = f, !.error = e, !.raised = raise_from(e),
                   !.raised_info = c.info]

\* the lookup of item f failed with e while the batch was executed:
\* ad_object_failure raises, and the exception leaves fetch_creative_in_batch
BatchFailure(c, f, e) ==
    [c EXCEPT !.executes = @ + 1, !.requests = execute(@, c.api_batch),
              !.failed = f, !.error = e, !.raised = raise_from(e),
              !.raised_info = c.info]

\* one iteration of "for ad_object_id in ad_object_id_list"
EnqueueId ==
    /\ call.op = "batch"
    /\ call.failed = 0
    /\ call.processed_count < call.total_count
    /\ LET ad_object_id == call.processed_count + 1
           enqueued(c) ==
               [c EXCEPT !.info = c.processing_id_list,
                         !.api_batch = Append(@, ad_object_id),
                         !.batch_count = @ + 1,
                         !.processed_count = @ + 1,
                         !.processing_id_list = Append(@, ad_object_id)]
       IN  IF new_batch_due(call.batch_count)
           THEN \E f \in Failing(call.api_batch), e \in LookupErrors :
                   call' = IF f # 0
                           THEN BatchFailure(call, f, e)
                           ELSE enqueued([call EXCEPT
                                            !.executes = @ + 1,
                                            !.requests = execute(@, call.api_batch),
                                            !.api_batch = << >>])
           ELSE call' = enqueued(call)
    /\ UNCHANGED mainVars

\* after the loop: "Ensure the final batch is executed"
FinalExecute ==
    /\ call.op = "batch"
    /\ call.failed = 0
    /\ ~ call.done
    /\ call.processed_count = call.total_count
    /\ \E f \in Failing(call.api_batch), e \in LookupErrors :
          call' = IF f # 0
                  THEN BatchFailure(call, f, e)
                  ELSE [call EXCEPT !.executes = @ + 1,
                                    !.requests = execute(@, call.api_batch),
                                    !.done = TRUE]
    /\ UNCHANGED mainVars

SpecBatch == InitBatch /\ [][EnqueueId \/ FinalExecute]_vars

\* the names initialize_stream builds as IncrementalStream
IncrementalStreams == {"adaccounts", "adcreative", "ads", "adsets", "campaigns"}

ONLY_ACTIVE == [field |-> "effective_status", operator |-> "IN", value |-> <<"ACTIVE">>]

\* pendulum.parse(day).int_timestamp: the first second of the day
int_timestamp(day) == day * 86400

id_filter(specified_ids) == [field |-> "id", operator |-> "IN", value |-> specified_ids]

time_range_filter_open(start_date, end_date) ==
    [field |-> "updated_time", operator |-> "IN_RANGE",
     value |-> <<int_timestamp(start_date), int_timestamp(end_date)>>]

\* from the start of the start day to the last second of the end day
time_range_filter(start_date, end_date) ==
    [field |-> "updated_time", operator |-> "IN_RANGE",
     value |-> <<int_timestamp(start_date), int_timestamp(end_date + 1) - 1>>]

\* CONFIG.get('specified_ids') is truthy: present and not empty
has_specified_ids(c) == c.specified_ids.present /\ c.specified_ids.ids # << >>

active_filter(n, c) ==
    IF c.only_active /\ n \in {"ads", "adsets", "campaigns", "adcreative"}
    THEN <<ONLY_ACTIVE>> ELSE << >>

filtering_active_in_every_mode(n, c) ==
    (IF has_specified_ids(c)
     THEN <<id_filter(c.specified_ids.ids)>>
     ELSE IF c.only_time_range
     THEN <<time_range_filter(c.start_date, c.end_date)>>
     ELSE << >>) \o active_filter(n, c)

\* params['filtering'] as IncrementalStream.__iter__ builds it, << >> when the
\* key is not set
filtering(n, c) ==
    IF has_specified_ids(c)
    THEN <<id_filter(c.specified_ids.ids)>>
    ELSE (IF c.only_time_range
          THEN <<time_range_filter(c.start_date, c.end_date)>>
          ELSE << >>) \o active_filter(n, c)

\* CONFIG['end_date'] raises KeyError when the range is asked for without it
params_raises(c) == ~ has_specified_ids(c) /\ c.only_time_range /\ c.end_date = None

\* the configurations of the list request: specified_ids absent, empty or
\* two ids; the two flags; an end date or none
ListConfigs ==
    [specified_ids : { [present |-> FALSE, ids |-> << >>], [present |-> TRUE, ids |-> << >>],
                       [present |-> TRUE, ids |-> <<11, 12>>] },
     only_time_range : BOOLEAN, only_active : BOOLEAN,
     start_date : {1}, end_date : {None, 1, 3}]

InitParams ==
    /\ Idle
    /\ call \in { [op |-> "params", name |-> n, config |-> c, built |-> FALSE,
                    params |-> [limit |-> RESULT_RETURN_LIMIT, filtering |-> << >>],
                    raised |-> NoExc] : n \in IncrementalStreams, c \in ListConfigs }

\* IncrementalStream.__iter__ builds the params of its list request
BuildParams ==
    /\ call.op = "params"
    /\ ~ call.built
    /\ call.raised = NoExc
    /\ call' = IF params_raises(call.config)
               THEN [call EXCEPT !.raised = Exc("KeyError")]
               ELSE [call EXCEPT !.built = TRUE,
                                 !.params.filtering = filtering(call.name, call.config)]
    /\ UNCHANGED mainVars

SpecParams == InitParams /\ [][BuildParams]_vars

-----------------------------------------------------------------------------
(* Properties of advance_bookmark and get_start, under SpecAdvance *)

IsReport(n) == n \in INSIGHTS_BREAKDOWNS_OPTIONS

\* the bookmark of the call's stream in the document the calls started from
StoredBookmark == call.state0.bm[call.name]

\* C4 as stated: the returned bookmark is b for a null candidate and for a
\* candidate <= b, and the candidate when it is > b or when no bookmark exists;
\* a second advance with the same candidate returns the same; the result is
\* never earlier than b.
C4_AdvanceAsStated ==
    (call.op = "advance" /\ Len(call.returned) >= 1) =>
        LET b == StoredBookmark
            c == call.date
            r == call.returned[1].bm[call.name]
        IN  /\ c = None => r = b
            /\ (c # None /\ b # None /\ c <= b) => r = b
            /\ (c # None /\ (b = None \/ c > b)) => r = c
            /\ Len(call.returned) = 2 => call.returned[2] = call.returned[1]
            /\ b # None => r >= b

\* C4 amended: as stated, except that without a stored bookmark a report stream
\* takes the configured start date for b: the candidate is written when it is
\* later than the start date, and no bookmark is written otherwise.
C4_Advance ==
    (call.op = "advance" /\ Len(call.returned) >= 1) =>
        LET b == StoredBookmark
            c == call.date
            r == call.returned[1].bm[call.name]
        IN  /\ c = None => r = b
            /\ (c # None /\ b # None /\ c <= b) => r = b
            /\ (c # None /\ b # None /\ c > b) => r = c
            /\ (c # None /\ b = None /\ ~ IsReport(call.name)) => r = c
            /\ (c # None /\ b = None /\ IsReport(call.name)) =>
                  r = IF c > call.start_date THEN c ELSE None
            /\ Len(call.returned) = 2 => call.returned[2] = call.returned[1]
            /\ b # None => r >= b

\* a report stream without bookmark advanced twice with a candidate that is
\* not later than the start date
C4_Witness ==
    /\ call.op = "advance"
    /\ Len(call.returned) = 2
    /\ IsReport(call.name)
    /\ StoredBookmark = None
    /\ call.date # None
    /\ call.date <= call.start_date
    /\ call.returned[2].bm[call.name] = None

\* C5 as stated: without a stored bookmark get_start returns None for a report
\* stream and the configured start date for any other stream; with a stored
\* bookmark it returns the bookmark.
C5_GetStartAsStated ==
    (call.op = "advance" /\ Len(call.got) = 1) =>
        call.got[1] = IF StoredBookmark # None THEN StoredBookmark
                      ELSE IF IsReport(call.name) THEN None
                      ELSE call.start_date

\* C5 amended: without a stored bookmark get_start returns the configured start
\* date for a report stream and None for any other stream; with a stored
\* bookmark it returns the bookmark.
C5_GetStart ==
    (call.op = "advance" /\ Len(call.got) = 1) =>
        call.got[1] = IF StoredBookmark # None THEN StoredBookmark
                      ELSE IF IsReport(call.name) THEN call.start_date
                      ELSE None

\* get_start has returned the start date to a report stream without bookmark
C5_Witness ==
    /\ call.op = "advance"
    /\ Len(call.got) = 1
    /\ IsReport(call.name)
    /\ StoredBookmark = None
    /\ call.got[1] = call.start_date

\* C18: advance_bookmark never modifies the state document it reads: after
\* any call the document the stream held before the call has the bookmarks it
\* had, and the new bookmark is in the returned value only.
C18_DocumentNotModified ==
    call.op = "advance" => call.state = call.state0

-----------------------------------------------------------------------------
(* Properties of the classifier and of the retry wrapper *)

\* the failures the classifier is said to rate transient
SaidTransient(e) ==
    \/ e.type = "TypeError" /\ e.message = "string indices must be integers"
    \/ e.type = "FacebookBadObjectError"
    \/ e.type = "InsightsJobTimeout"
    \/ e.type = "FacebookRequestError" /\ (e.transient \/ e.subcode = 99 \/ e.status = 500)

\* C6: the classifier returns transient exactly for the malformed-response
\* TypeError, a bad-object error, a job timeout and a request error that is
\* flagged transient, has subcode 99 or has status 500; fatal for anything else,
\* a plain status 400 and a TypeError with another message included.
C6_Classifier ==
    (call.op = "classify" /\ call.verdict # "none") =>
        LET e == call.exception
        IN  /\ call.verdict = "transient" <=> SaidTransient(e)
            /\ call.verdict = "fatal" <=> ~ SaidTransient(e)
            /\ (e.type = "FacebookRequestError" /\ ~ e.transient /\ e.subcode # 99
                  /\ e.status = 400) => call.verdict = "fatal"
            /\ (e.type = "TypeError" /\ e.message # "string indices must be integers")
                  => call.verdict = "fatal"

\* a request error with status 500 and nothing else was classified transient
C6_Witness ==
    /\ call.op = "classify"
    /\ call.exception.type = "FacebookRequestError"
    /\ ~ call.exception.transient
    /\ call.exception.subcode = None
    /\ call.exception.status = 500
    /\ call.verdict = "transient"

\* C7: the wrapper invokes the operation at most 5 times; it makes another
\* attempt only after a failure rated transient; and when the 5th attempt
\* fails, that attempt's failure is what the wrapper lets out.
C7_AtMostFiveAttempts ==
    call.op = "retry" =>
        /\ retry.calls <= 5
        /\ (retry.status = "calling" /\ retry.calls > 0) =>
              /\ SaidTransient(retry.exc)
              /\ Len(retry.slept) = retry.calls
        /\ (retry.calls = 5 /\ retry.exc # NoExc) =>
              /\ retry.status = "raised"
              /\ retry.raised = retry.exc
        /\ retry.status = "raised" => retry.raised = retry.exc

\* the 5th attempt failed with a transient failure, which was let out
C7_Witness ==
    /\ call.op = "retry"
    /\ retry.calls = 5
    /\ retry.status = "raised"
    /\ retry.raised = Exc("InsightsJobTimeout")

\* C8: after an attempt that fails with a failure rated fatal the wrapper
\* sleeps no more and makes no further attempt, whatever the number of
\* attempts made: the failure is let out at once.
C8_FatalNotRetried ==
    [][ /\ (retry'.calls = retry.calls + 1 /\ retry'.exc # NoExc
              /\ ~ SaidTransient(retry'.exc)) =>
                /\ retry'.status = "raised"
                /\ retry'.raised = retry'.exc
                /\ retry'.slept = retry.slept
        /\ retry.status = "raised" => retry' = retry ]_vars

\* a fatal failure of the third attempt was let out after two sleeps
C8_Witness ==
    /\ call.op = "retry"
    /\ retry.calls = 3
    /\ retry.status = "raised"
    /\ retry.raised.type = "FacebookRequestError"
    /\ retry.raised.status = 400
    /\ ~ SaidTransient(retry.raised)
    /\ Len(retry.slept) = 2

-----------------------------------------------------------------------------
(* Properties of job_params, under SpecChunks *)

RECURSIVE Flatten(_)
Flatten(ss) == IF ss = << >> THEN << >> ELSE Head(ss) \o Flatten(Tail(ss))

\* C9: each chunk lists at most B single-day ranges (since = until); the days
\* run from end downwards without gap or repetition, inside a chunk and from
\* one chunk to the next; when job_params ends they reach buffered_start; and a
\* window of 20 days (end - buffered_start) with B = 7 gives 3 chunks of 7, 7
\* and 7 ranges.
C9_Chunks ==
    call.op = "job_params" =>
        LET ranges == Flatten(call.chunks)
            window == call.end - call.buffered_start_date
        IN  /\ \A k \in 1..Len(call.chunks) :
                  Len(call.chunks[k]) >= 1 /\ Len(call.chunks[k]) <= call.B
            /\ \A i \in 1..Len(ranges) :
                  ranges[i].since = ranges[i].until /\ ranges[i].until = call.end - (i - 1)
            /\ call.done => Len(ranges) = IF window >= 0 THEN window + 1 ELSE 0
            /\ (call.done /\ window = 20 /\ call.B = 7) =>
                  [k \in 1..Len(call.chunks) |-> Len(call.chunks[k])] = <<7, 7, 7>>

\* job_params has ended on a window of 20 days with chunk size 7
C9_Witness ==
    /\ call.op = "job_params"
    /\ call.done
    /\ call.end - call.buffered_start_date = 20
    /\ call.B = 7
    /\ Len(call.chunks) = 3

-----------------------------------------------------------------------------
(* Properties of the row loop, under SpecRows *)

\* not (impressions = 0 and spend = 0)
Useful(rec) == ~ (rec.impressions.tenths = 0 /\ rec.spend.tenths = 0)

\* C11: a result row is emitted as a record exactly when it is not the case
\* that impressions = 0 and spend = 0, a row with impressions = 0 and a whole or
\* fractional positive spend included; every row adds one to the total count
\* and only the emitted rows add to the useful count.
C11_RowFilter ==
    call.op = "rows" =>
        /\ call.emitted = SelectSeq(call.rows, Useful)
        /\ call.count = Len(call.rows)
        /\ call.useful_count = Len(call.emitted)

-----------------------------------------------------------------------------
(* Properties of run_job's poll loop, under SpecPoll *)

\* C12: the first sleep of the poll loop is 10 seconds, the sleep doubles from
\* one iteration to the next until it is capped, and no sleep is longer than
\* the cap of 300 seconds.
C12_SleepCapped ==
    call.op = "run_job" =>
        /\ Len(call.slept) >= 1 => call.slept[1] = 10
        /\ \A i \in 2..Len(call.slept) :
              call.slept[i] = 2 * call.slept[i - 1] \/ call.slept[i] = call.slept[i - 1]
        /\ \A i \in 1..Len(call.slept) : call.slept[i] <= 300

\* C13: at a poll that finds the job not completed, more than 120 seconds
\* elapsed with 0 percent ends the attempt with the "did not start" job timeout,
\* more than 1800 seconds elapsed ends it with a job timeout, and no timeout is
\* raised with at most 120 seconds elapsed, nor with at most 1800 seconds
\* elapsed and a positive percentage; a completed job raises nothing.
C13_Timeouts ==
    (call.op = "run_job" /\ call.polls > 0) =>
        IF call.status = "Job Completed"
        THEN call.returned /\ call.raised = NoExc
        ELSE /\ (call.duration > 120 /\ call.percent_complete = 0) =>
                    call.raised = JobTimeout("did not start")
             /\ call.duration > 1800 => call.raised.type = "InsightsJobTimeout"
             /\ call.duration <= 120 => call.raised = NoExc
             /\ (call.duration <= 1800 /\ call.percent_complete > 0) => call.raised = NoExc
             /\ ~ call.returned

\* a poll 121 seconds after the submission found the job running at 0 percent
\* and raised the "did not start" timeout
C13_Witness ==
    /\ call.op = "run_job"
    /\ call.duration = 121
    /\ call.percent_complete = 0
    /\ call.status = "Job Running"
    /\ call.raised = JobTimeout("did not start")

-----------------------------------------------------------------------------
(* Properties of fetch_creative_in_batch, under SpecBatch *)

Ceil(n, d) == (n + d - 1) \div d

C15_FailureContext ==
    (call.op = "batch" /\ call.failed # 0) =>
        /\ \E k \in 1..Len(call.requests[Len(call.requests)]) :
              call.requests[Len(call.requests)][k] = call.failed
        /\ call.raised_info = call.requests[Len(call.requests)]

-----------------------------------------------------------------------------
(* Properties of the list request of an incremental stream, under SpecParams *)

\* the filters of the request on the given field
FiltersOn(field) ==
    { i \in 1..Len(call.params.filtering) : call.params.filtering[i].field = field }

\* C19: the list request uses exactly one of three filter modes: with an
\* explicit list of ids configured the filter holds the id allow-list and no
\* time range, the time-range flag set or not; otherwise with the time-range
\* flag set it holds the closed range from the start to the end of the end
\* day; otherwise it holds neither.
C19_FilterModes ==
    (call.op = "params" /\ call.built) =>
        LET c == call.config
            f == call.params.filtering
        IN  IF has_specified_ids(c)
            THEN /\ Cardinality(FiltersOn("id")) = 1
                 /\ \A i \in FiltersOn("id") :
                       f[i].operator = "IN" /\ f[i].value = c.specified_ids.ids
                 /\ FiltersOn("updated_time") = {}
            ELSE IF c.only_time_range
            THEN /\ FiltersOn("id") = {}
                 /\ Cardinality(FiltersOn("updated_time")) = 1
                 /\ \A i \in FiltersOn("updated_time") :
                       /\ f[i].operator = "IN_RANGE"
                       /\ f[i].value = <<c.start_date * 86400, c.end_date * 86400 + 86399>>
            ELSE FiltersOn("id") = {} /\ FiltersOn("updated_time") = {}

\* a request with the id allow-list alone, built with the time-range flag set
C19_Witness ==
    /\ call.op = "params"
    /\ call.built
    /\ call.config.only_time_range
    /\ has_specified_ids(call.config)
    /\ FiltersOn("id") # {}
    /\ FiltersOn("updated_time") = {}

StatusBearing == {"ads", "adsets", "campaigns", "adcreative"}

\* C20 as stated: with the only-active flag set and a status-bearing stream
\* the active-status filter is in the request in each of the three modes, the
\* id allow-list mode included; for another stream or with the flag off it is
\* never in the request.
C20_ActiveInEveryMode ==
    (call.op = "params" /\ call.built) =>
        IF call.config.only_active /\ call.name \in StatusBearing
        THEN Cardinality(FiltersOn("effective_status")) = 1
        ELSE FiltersOn("effective_status") = {}

\* C20 amended: with the only-active flag set and a status-bearing stream the
\* active-status filter is in the request in the time-range mode and in the
\* mode without filter; in the id allow-list mode, for another stream or with
\* the flag off it is never in the request.
C20_ActiveFilter ==
    (call.op = "params" /\ call.built) =>
        IF call.config.only_active /\ call.name \in StatusBearing
           /\ ~ has_specified_ids(call.config)
        THEN /\ Cardinality(FiltersOn("effective_status")) = 1
             /\ \A i \in FiltersOn("effective_status") :
                   call.params.filtering[i] = ONLY_ACTIVE
        ELSE FiltersOn("effective_status") = {}

\* a request of a status-bearing stream with the only-active flag set and an
\* id allow-list, built without the active-status filter
C20_Witness ==
    /\ call.op = "params"
    /\ call.built
    /\ call.name = "ads"
    /\ call.config.only_active
    /\ has_specified_ids(call.config)
    /\ FiltersOn("effective_status") = {}
    /\ FiltersOn("id") # {}

\* C21 as stated: a failed batch lookup that the classifier rates transient is
\* retried with backoff up to the attempt budget: only a fatal failure, or a
\* transient one that used up the 5 attempts, aborts the sync of the stream.
C21_BatchLookupRetried ==
    (call.op = "batch" /\ call.failed # 0) =>
        \/ ~ should_retry_api_error(call.error)
        \/ call.retries + 1 = max_tries

\* C21 amended: batch lookups do not run under the retry policy: a failed
\* lookup, rated transient or fatal, is raised at once as MySingerSyncError by
\* the failure callback, and no batch is executed again.
C21_BatchLookupNotRetried ==
    call.op = "batch" =>
        /\ call.retries = 0
        /\ call.failed # 0 =>
              /\ call.error \in LookupErrors
              /\ call.raised = [type |-> "MySingerSyncError", cause |-> "FacebookRequestError"]
              /\ ~ call.done
        /\ call.failed = 0 => call.raised = NoErr

\* a lookup failed with status 500 and the call was aborted at once
C21_Witness ==
    /\ call.op = "batch"
    /\ call.failed # 0
    /\ call.error.status = 500
    /\ should_retry_api_error(call.error)
    /\ call.retries = 0
    /\ call.raised.type = "MySingerSyncError"

\* C25: a poll that reads the status Completed returns the job, whatever the
\* elapsed time and the percentage read: completion comes before both
\* timeouts; and run_job returns only a job whose last polled status is
\* Completed.
C25_CompletionFirst ==
    (call.op = "run_job" /\ call.polls > 0) =>
        /\ call.status = "Job Completed" => (call.returned /\ call.raised = NoExc)
        /\ call.returned => call.status = "Job Completed"

\* a poll more than 1800 seconds after the submission read Completed at 0
\* percent, and the job was returned
C25_Witness ==
    /\ call.op = "run_job"
    /\ call.duration > 1800
    /\ call.percent_complete = 0
    /\ call.status = "Job Completed"
    /\ call.returned

\* C26: a polled status other than Completed is treated the same whatever it
\* is, Failed included: the poll raises nothing for it, the job is polled
\* again, and the attempt ends with one of the two timeouts, after more than
\* 120 seconds at 0 percent or after more than 1800 seconds.
C26_FailedKeepsPolling ==
    (call.op = "run_job" /\ call.polls > 0 /\ call.status # "Job Completed") =>
        /\ ~ call.returned
        /\ call.raised # NoExc <=>
              \/ call.duration > 120 /\ call.percent_complete = 0
              \/ call.duration > 1800
        /\ call.raised # NoExc => call.raised.type = "InsightsJobTimeout"
        /\ call.raised = NoExc =>
              /\ Len(call.slept) = call.polls
              /\ call.clock >= call.duration + call.slept[Len(call.slept)]

\* a job reported Failed at 50 percent was polled at least five times and
\* still is
C26_Witness ==
    /\ call.op = "run_job"
    /\ call.status = "Job Failed"
    /\ call.percent_complete = 50
    /\ call.polls >= 5
    /\ call.raised = NoExc
    /\ Len(call.slept) = call.polls

-----------------------------------------------------------------------------
(* Properties of run_job under the retry wrapper, under SpecRunJob *)

\* C24: every attempt of run_job ends after a bounded number of polls, by
\* returning a completed job or by raising a job timeout; a job that does not
\* complete is given up at the first poll after 1800 seconds at the latest;
\* and the retried call ends, after at most 5 attempts.
C24_RunJobTerminates ==
    /\ [](call.op = "run_job" =>
            /\ call.polls <= 11
            /\ retry.calls <= 5
            /\ (call.polls > 0 /\ call.duration > 1800 /\ ~ call.returned) =>
                  call.raised.type = "InsightsJobTimeout"
            /\ call.raised # NoExc => call.raised.type = "InsightsJobTimeout"
            /\ call.returned => call.status = "Job Completed")
    /\ <>(retry.status \in {"returned", "raised"})

\* the fifth attempt gave its job up at its eleventh poll, 1910 seconds after
\* the submission, and the timeout was let out
C24_Witness ==
    /\ call.op = "run_job"
    /\ retry.calls = 5
    /\ retry.status = "raised"
    /\ call.polls = 11
    /\ call.duration = 1910
    /\ call.raised = JobTimeout("did not complete")

====
